---- MODULE Spec2Model ----
(***************************************************************************)
(* A model of package grpcweb (src/grpcweb.go): the request-side           *)
(* FrameReader, the response-side StreamingResponseWriter with its         *)
(* flushingBase64Writer, and the underlying http.ResponseWriter they       *)
(* write to.  Bytes are integers 0..255; byte strings are sequences.       *)
(***************************************************************************)
EXTENDS Integers, Sequences, FiniteSets, TLC

\* ------------------------------------------------------------------ bounds
\* Largest read buffer len(p) handed to FrameReader.Read.
MaxRead == 8
\* Number of items (frames, truncated frames) concatenated into a request body.
MaxSrcItems == 2
\* Number of items (frames, headers of huge frames) in a native response stream.
MaxFrames == 2
\* Flush calls made on the writer before Finish.
MaxFlushes == 1
\* Mutations the backend makes to the header map of the writer.
MaxHeaderCalls == 3
\* Calls recorded in the log of a text-mode exchange.
MaxCalls == 4
\* Largest chunk of a text-mode Write that does not write all that is left.
MaxChunk == 3

\* --------------------------------------------------------- program constants
grpcDataFrame == 0
grpcTrailerFrame == 128
\* Length of a frame header: make([]byte, 5).
HeaderLen == 5
\* Modulus of 16-bit arithmetic: a uint32 is kept as two 16-bit halves
\* [hi, lo], its value being hi * 2^16 + lo, with arithmetic modulo 2^32.
Half == 65536

\* ------------------------------------------------------------- byte strings
Min(a, b) == IF a < b THEN a ELSE b

Take(s, n) == SubSeq(s, 1, Min(n, Len(s)))

Drop(s, n) == SubSeq(s, Min(n, Len(s)) + 1, Len(s))

RECURSIVE Concat(_)
Concat(ss) == IF ss = <<>> THEN <<>> ELSE Head(ss) \o Concat(Tail(ss))

IsPrefix(s, t) == Len(s) <= Len(t) /\ SubSeq(t, 1, Len(s)) = s

\* binary.BigEndian.Uint32 of a 4-byte slice.
Uint32(b) == [hi |-> b[1] * 256 + b[2], lo |-> b[3] * 256 + b[4]]

\* binary.BigEndian.PutUint32: the 4 big-endian bytes of v.
PutUint32(v) == << v.hi \div 256, v.hi % 256, v.lo \div 256, v.lo % 256 >>

\* uint32(n) of a non-negative int n (a buffer length).
ToUint32(n) == [hi |-> (n \div Half) % Half, lo |-> n % Half]

\* a + b in uint32 arithmetic (wraps modulo 2^32).
Add32(a, b) ==
    [hi |-> (a.hi + b.hi + (a.lo + b.lo) \div Half) % Half, lo |-> (a.lo + b.lo) % Half]

\* a < b on uint32 values.
Lt32(a, b) == a.hi < b.hi \/ (a.hi = b.hi /\ a.lo < b.lo)

\* min(int64(length), avail): the bytes io.CopyN moves when avail < 2^16 are at hand.
CopyCount(length, avail) == IF length.hi > 0 THEN avail ELSE Min(length.lo, avail)


\* --------------------------------------------------------------- error values
ErrNil == "nil"
ErrEOF == "EOF"
ErrUnexpectedEOF == "unexpected EOF"
\* fmt.Errorf("error copying frame data: %w", io.EOF): a value distinct from io.EOF.
ErrCopyFrame == "error copying frame data: EOF"

VARIABLES
    \* FrameReader
    source,        \* bytes the wrapped io.Reader has yet to deliver (then EOF)
    buffer,        \* FrameReader.buffer: translated bytes not yet delivered
    srcInit,       \* history: the request body as first handed to NewFrameReader
    delivered,     \* history: every byte Read has returned to the consumer
    lastRead,      \* result of the latest Read: [n, err]
    truncated,     \* history: some Read failed copying a short payload
    ended          \* history: some Read met a header whose flag is not DATA

VARIABLES
    \* StreamingResponseWriter
    isTextResponse,      \* srw.isTextResponse
    hasFlusher,          \* srw.flusher != nil: the transport implements http.Flusher
    headers,             \* srw.headers: field name -> sequence of values
    trailers,            \* srw.trailers
    capturedStatusCode,  \* srw.capturedStatusCode
    headersWritten,      \* srw.headersWritten
    frameBuffer,         \* srw.frameBuffer: native bytes not yet forwarded
    \* flushingBase64Writer.encoder (text mode)
    encBuf,              \* the 0..2 bytes of an incomplete base64 group
    encErr,              \* the encoder's sticky write error is set
    \* the underlying http.ResponseWriter srw.w
    wHeader,             \* its header map
    wStatus,             \* the status line it was given (0: none yet)
    wBody,               \* the body bytes it has received
    wFlushes,            \* the Flush calls it has received
    wBroken,             \* its Write fails (the client has gone away)
    \* the caller and the history of the exchange
    toSend,              \* native bytes the backend has yet to write
    sent,                \* history: every byte passed to Write
    sinkBytes,           \* history: every byte srw.bodyWriter.Write accepted
    sinkRejects,         \* history: the srw.bodyWriter.Write calls that failed
    trailerBlock,        \* history: the serialized trailers Finish wrote
    awaited,             \* history: the announced names that had no value at finalization
    ret,                 \* latest call of the writer and the error it returned
    finished,            \* Finish has been called
    headerCalls,         \* history: the number of header mutations made
    log                  \* history: the calls made (kept by SpecText only)

VARIABLES
    \* an incoming request and what the negotiation helpers say of it
    request,             \* [method, contentType, accept]: r.Method and r.Header.Get of both
    negotiation          \* [done, isGRPCWeb, isText]: the helpers' results

negotiationVars == << request, negotiation >>

readerVars == << source, buffer, srcInit, delivered, lastRead, truncated, ended >>

writerVars ==
    << isTextResponse, hasFlusher, headers, trailers, capturedStatusCode,
       headersWritten, frameBuffer, encBuf, encErr, wHeader, wStatus, wBody,
       wFlushes, wBroken, sinkBytes, sinkRejects, trailerBlock, awaited >>

callerVars == << toSend, sent, ret, finished, headerCalls, log >>

vars == << readerVars, writerVars, callerVars, negotiationVars >>

\* ================================================================ FrameReader

\* A header that keeps a set compression flag instead of writing 0.
GrpcHeaderFlagged(length) == <<1>> \o PutUint32(length)

\* The gRPC message header written to fr.buffer: flag 0 (no compression) + length.
GrpcHeader(length) == <<0>> \o PutUint32(length)

\* A short header reported as a clean end of stream.
ReadFullErrAsEOF(avail) == ErrEOF

\* io.ReadFull's error when the source holds avail < 5 bytes.
ReadFullErr(avail) == IF avail = 0 THEN ErrEOF ELSE ErrUnexpectedEOF

\* bytes.Buffer.Read(p) with len(p) = n on a non-empty buffer.
BufferRead(src, buf, n) ==
    [source |-> src, buffer |-> Drop(buf, n), data |-> Take(buf, n), err |-> ErrNil]

\* The error Read returns when io.CopyN delivered fewer than length bytes.
CopyNErr == ErrCopyFrame

\* FrameReader.Read(p) with len(p) = n, from source src and buffer buf.
ReadOp(src, buf, n) ==
    IF Len(buf) > 0 THEN BufferRead(src, buf, n)
    ELSE IF Len(src) < HeaderLen
    THEN [source |-> <<>>, buffer |-> buf, data |-> <<>>, err |-> ReadFullErr(Len(src))]
    ELSE LET frameHeader == Take(src, HeaderLen)
             rest == Drop(src, HeaderLen)
         IN IF frameHeader[1] # grpcDataFrame
            THEN [source |-> rest, buffer |-> buf, data |-> <<>>, err |-> ErrEOF]
            ELSE LET length == Uint32(SubSeq(frameHeader, 2, 5))
                     copied == CopyCount(length, Len(rest))
                     filled == GrpcHeader(length) \o Take(rest, copied)
                 IN IF Lt32(ToUint32(copied), length)
                    THEN [source |-> Drop(rest, copied), buffer |-> filled,
                          data |-> <<>>, err |-> CopyNErr]
                    ELSE BufferRead(Drop(rest, copied), filled, n)

\* Read is about to take a frame header whose flag byte is not grpcDataFrame.
FlagEnds(src, buf) ==
    Len(buf) = 0 /\ Len(src) >= HeaderLen /\ src[1] # grpcDataFrame

Read(n) ==
    LET r == ReadOp(source, buffer, n)
    IN /\ source' = r.source
       /\ buffer' = r.buffer
       /\ delivered' = delivered \o r.data
       /\ lastRead' = [n |-> Len(r.data), err |-> r.err]
       /\ truncated' = (truncated \/ r.err = ErrCopyFrame)
       /\ ended' = (ended \/ FlagEnds(source, buffer))
       /\ UNCHANGED << srcInit, writerVars, callerVars, negotiationVars >>

\* ======================================================= header primitives
StatusOK == 200

ContentTypeGRPCWebProto == "application/grpc-web+proto"
ContentTypeGRPCWebTextProto == "application/grpc-web-text+proto"

\* The error of a Write on a transport whose client has gone away.
ErrBrokenPipe == "write: broken pipe"

\* The empty http.Header.
NoHeader == [k \in {} |-> <<>>]

\* h with h[k] = v.
With(h, k, v) == [x \in DOMAIN h \cup {k} |-> IF x = k THEN v ELSE h[x]]

\* delete(h, k).
Without(h, k) == [x \in DOMAIN h \ {k} |-> h[x]]

\* http.Header.Get: the first value of k, "" when there is none.
Get(h, k) == IF k \in DOMAIN h /\ Len(h[k]) > 0 THEN h[k][1] ELSE ""

\* strings.Split(trailer, ","): the comma-separated parts of a Trailer value.
SplitComma(trailer) ==
    CASE trailer = "Grpc-Status" -> << "Grpc-Status" >>
      [] trailer = "X-Foo" -> << "X-Foo" >>
      [] trailer = "grpc-message, x-foo" -> << "grpc-message", " x-foo" >>

\* http.CanonicalHeaderKey(strings.TrimSpace(key)).
CanonicalKey(key) ==
    CASE key \in {"Grpc-Status", "grpc-status", " grpc-status"} -> "Grpc-Status"
      [] key \in {"Grpc-Message", "grpc-message", " grpc-message"} -> "Grpc-Message"
      [] key \in {"X-Foo", "x-foo", " x-foo"} -> "X-Foo"

\* The canonical field names a sequence of Trailer values announces, in order.
RECURSIVE AnnouncedKeys(_)
AnnouncedKeys(values) ==
    IF values = <<>> THEN <<>>
    ELSE LET parts == SplitComma(Head(values))
         IN [i \in 1..Len(parts) |-> CanonicalKey(parts[i])] \o AnnouncedKeys(Tail(values))

\* The bytes of the strings that reach the trailer block.
Ascii(str) ==
    CASE str = "Trailer" -> <<84, 114, 97, 105, 108, 101, 114>>
      [] str = "X-Foo" -> <<88, 45, 70, 111, 111>>
      [] str = "Grpc-Status" -> <<71, 114, 112, 99, 45, 83, 116, 97, 116, 117, 115>>
      [] str = "Grpc-Message" -> <<71, 114, 112, 99, 45, 77, 101, 115, 115, 97, 103, 101>>
      [] str = "Content-Type" -> <<67, 111, 110, 116, 101, 110, 116, 45, 84, 121, 112, 101>>
      [] str = "bar" -> <<98, 97, 114>>
      [] str = "0" -> <<48>>
      [] str = "5" -> <<53>>
      [] str = "ok" -> <<111, 107>>
      [] str = "application/grpc" -> <<97, 112, 112, 108, 105, 99, 97, 116, 105, 111, 110, 47, 103, 114, 112, 99>>
      [] str = "2" -> <<50>>
      [] str = "7" -> <<55>>
      [] str = "12" -> <<49, 50>>
      [] str = "13" -> <<49, 51>>
      [] str = "14" -> <<49, 52>>
      [] str = "16" -> <<49, 54>>
      [] str = "Bad Request" -> <<66, 97, 100, 32, 82, 101, 113, 117, 101, 115, 116>>
      [] str = "Unauthorized" -> <<85, 110, 97, 117, 116, 104, 111, 114, 105, 122, 101, 100>>
      [] str = "Forbidden" -> <<70, 111, 114, 98, 105, 100, 100, 101, 110>>
      [] str = "Not Found" -> <<78, 111, 116, 32, 70, 111, 117, 110, 100>>
      [] str = "Too Many Requests" -> <<84, 111, 111, 32, 77, 97, 110, 121, 32, 82, 101, 113, 117, 101, 115, 116, 115>>
      [] str = "Internal Server Error" -> <<73, 110, 116, 101, 114, 110, 97, 108, 32, 83, 101, 114, 118, 101, 114, 32, 69, 114, 114, 111, 114>>
      [] str = "Bad Gateway" -> <<66, 97, 100, 32, 71, 97, 116, 101, 119, 97, 121>>
      [] str = "Service Unavailable" -> <<83, 101, 114, 118, 105, 99, 101, 32, 85, 110, 97, 118, 97, 105, 108, 97, 98, 108, 101>>
      [] str = "Gateway Timeout" -> <<71, 97, 116, 101, 119, 97, 121, 32, 84, 105, 109, 101, 111, 117, 116>>
      [] str = "OK" -> <<79, 75>>
      [] str = "application/grpc-web" -> <<97, 112, 112, 108, 105, 99, 97, 116, 105, 111, 110, 47, 103, 114, 112, 99, 45, 119, 101, 98>>
      [] str = "application/grpc-web-text" -> <<97, 112, 112, 108, 105, 99, 97, 116, 105, 111, 110, 47, 103, 114, 112, 99, 45, 119, 101, 98, 45, 116, 101, 120, 116>>
      [] str = "application/grpc-web+proto" -> <<97, 112, 112, 108, 105, 99, 97, 116, 105, 111, 110, 47, 103, 114, 112, 99, 45, 119, 101, 98, 43, 112, 114, 111, 116, 111>>
      [] str = "application/grpc-web-text+proto" -> <<97, 112, 112, 108, 105, 99, 97, 116, 105, 111, 110, 47, 103, 114, 112, 99, 45, 119, 101, 98, 45, 116, 101, 120, 116, 43, 112, 114, 111, 116, 111>>
      [] str = "-text" -> <<45, 116, 101, 120, 116>>
      [] str = "application/json" -> <<97, 112, 112, 108, 105, 99, 97, 116, 105, 111, 110, 47, 106, 115, 111, 110>>
      [] str = "*/*" -> <<42, 47, 42>>
      [] str = "" -> <<>>

\* The field names of the model in the order http.Header.Write emits them (sorted).
SortedKeys == << "Content-Type", "Grpc-Message", "Grpc-Status", "Trailer", "X-Foo" >>

\* The lines "Name: value\r\n" of one field, one per value.
RECURSIVE FieldLines(_, _)
FieldLines(k, values) ==
    IF values = <<>> THEN <<>>
    ELSE Ascii(k) \o <<58, 32>> \o Ascii(Head(values)) \o <<13, 10>>
         \o FieldLines(k, Tail(values))

\* http.Header.Write: every field of h, keys sorted, one line per value.
RECURSIVE HeaderWriteFrom(_, _)
HeaderWriteFrom(h, i) ==
    IF i > Len(SortedKeys) THEN <<>>
    ELSE (IF SortedKeys[i] \in DOMAIN h THEN FieldLines(SortedKeys[i], h[SortedKeys[i]])
          ELSE <<>>) \o HeaderWriteFrom(h, i + 1)

HeaderWrite(h) == HeaderWriteFrom(h, 1)

\* The table of httpStatusToGrpcCode, which maps every 200 to codes.OK only.
httpStatusToGrpcCode(httpStatusCode) ==
    CASE httpStatusCode = 200 -> 0
      [] httpStatusCode = 400 -> 13
      [] httpStatusCode = 401 -> 16
      [] httpStatusCode = 403 -> 7
      [] httpStatusCode = 404 -> 12
      [] httpStatusCode \in {429, 502, 503, 504} -> 14
      [] OTHER -> 2

\* strconv.Itoa on the codes the table yields.
Itoa(code) ==
    CASE code = 0 -> "0" [] code = 2 -> "2" [] code = 7 -> "7" [] code = 12 -> "12"
      [] code = 13 -> "13" [] code = 14 -> "14" [] code = 16 -> "16"

\* http.StatusText: the registered reason phrase, "" for an unregistered code.
StatusText(code) ==
    CASE code = 200 -> "OK"
      [] code = 400 -> "Bad Request"
      [] code = 401 -> "Unauthorized"
      [] code = 403 -> "Forbidden"
      [] code = 404 -> "Not Found"
      [] code = 429 -> "Too Many Requests"
      [] code = 500 -> "Internal Server Error"
      [] code = 502 -> "Bad Gateway"
      [] code = 503 -> "Service Unavailable"
      [] code = 504 -> "Gateway Timeout"
      [] OTHER -> ""

\* ================================================================== base64
\* The character of base64.StdEncoding for the 6-bit value v.
B64Char(v) ==
    IF v < 26 THEN 65 + v
    ELSE IF v < 52 THEN 97 + (v - 26)
    ELSE IF v < 62 THEN 48 + (v - 52)
    ELSE IF v = 62 THEN 43 ELSE 47

\* The padding character '='.
B64Pad == 61

\* Encoding of whole 3-byte groups (Len(b) is a multiple of 3).
RECURSIVE B64Groups(_)
B64Groups(b) ==
    IF Len(b) < 3 THEN <<>>
    ELSE << B64Char(b[1] \div 4),
            B64Char((b[1] % 4) * 16 + b[2] \div 16),
            B64Char((b[2] % 16) * 4 + b[3] \div 64),
            B64Char(b[3] % 64) >> \o B64Groups(SubSeq(b, 4, Len(b)))

\* Encoding of the final 1 or 2 bytes, padded to 4 characters.
B64Final(b) ==
    IF Len(b) = 1
    THEN << B64Char(b[1] \div 4), B64Char((b[1] % 4) * 16), B64Pad, B64Pad >>
    ELSE << B64Char(b[1] \div 4), B64Char((b[1] % 4) * 16 + b[2] \div 16),
            B64Char((b[2] % 16) * 4), B64Pad >>

\* ================================================= the underlying transport
\* s.w.Write(p): fails once the client has gone away.
TransportWrite(s, p) ==
    IF s.wBroken THEN [st |-> s, err |-> ErrBrokenPipe]
    ELSE [st |-> [s EXCEPT !.wBody = @ \o p], err |-> ErrNil]

\* ==================================================== flushingBase64Writer
\* The bytes the encoder keeps back after a Write: the incomplete last group.
EncKeep(all) == Len(all) % 3

\* fbw.Write(p): the base64 encoder writes every complete 3-byte group to the
\* transport and keeps the 0..2 bytes left; a failed write sticks.
EncoderWrite(s, p) ==
    IF s.encErr THEN [st |-> s, err |-> ErrBrokenPipe]
    ELSE LET all == s.encBuf \o p
             whole == Len(all) - EncKeep(all)
         IN IF whole = 0 THEN [st |-> [s EXCEPT !.encBuf = all], err |-> ErrNil]
            ELSE IF s.wBroken THEN [st |-> [s EXCEPT !.encErr = TRUE], err |-> ErrBrokenPipe]
            ELSE [st |-> [s EXCEPT !.wBody = @ \o B64Groups(Take(all, whole)),
                                   !.encBuf = Drop(all, whole)],
                  err |-> ErrNil]

\* fbw.Close(): the encoder writes the bytes it kept back, padded.
EncoderClose(s) ==
    IF s.encErr THEN [st |-> s, err |-> ErrBrokenPipe]
    ELSE IF Len(s.encBuf) = 0 THEN [st |-> s, err |-> ErrNil]
    ELSE IF s.wBroken
    THEN [st |-> [s EXCEPT !.encErr = TRUE, !.encBuf = <<>>], err |-> ErrBrokenPipe]
    ELSE [st |-> [s EXCEPT !.wBody = @ \o B64Final(s.encBuf), !.encBuf = <<>>],
          err |-> ErrNil]

\* ================================================= StreamingResponseWriter
\* A sink whose failures the caller does not see: every Write reports nil.
BodyWriteUnchecked(s, p) ==
    LET r == IF s.isTextResponse THEN EncoderWrite(s, p) ELSE TransportWrite(s, p)
    IN IF r.err = ErrNil THEN [st |-> [r.st EXCEPT !.sinkBytes = @ \o p], err |-> ErrNil]
       ELSE [st |-> [r.st EXCEPT !.sinkRejects = @ + 1], err |-> ErrNil]

\* w.bodyWriter.Write(p): the base64 writer in text mode, else the transport.
BodyWrite(s, p) ==
    LET r == IF s.isTextResponse THEN EncoderWrite(s, p) ELSE TransportWrite(s, p)
    IN IF r.err = ErrNil THEN [st |-> [r.st EXCEPT !.sinkBytes = @ \o p], err |-> ErrNil]
       ELSE [st |-> [r.st EXCEPT !.sinkRejects = @ + 1], err |-> r.err]

\* A promotion that copies the field to the trailers and leaves it among the
\* headers.
RECURSIVE PromoteKeep(_, _)
PromoteKeep(keys, ht) ==
    IF keys = <<>> THEN ht
    ELSE IF Head(keys) \in DOMAIN ht.headers
    THEN PromoteKeep(Tail(keys),
                     [headers |-> ht.headers,
                      trailers |-> With(ht.trailers, Head(keys), ht.headers[Head(keys)])])
    ELSE PromoteKeep(Tail(keys), ht)

\* The loop over the announced keys: a key present among the headers moves
\* to the trailers and leaves the headers.
RECURSIVE Promote(_, _)
Promote(keys, ht) ==
    IF keys = <<>> THEN ht
    ELSE IF Head(keys) \in DOMAIN ht.headers
    THEN Promote(Tail(keys),
                 [headers |-> Without(ht.headers, Head(keys)),
                  trailers |-> With(ht.trailers, Head(keys), ht.headers[Head(keys)])])
    ELSE Promote(Tail(keys), ht)

\* A copy that forwards every buffered field.
ForwardedAll(h) == DOMAIN h

\* The buffered fields copied to the transport: all but these two.
Forwarded(h) == DOMAIN h \ {"Content-Type", "Content-Length"}

\* The Content-Type the writer forces.
FinalContentType(isText) ==
    IF isText THEN ContentTypeGRPCWebTextProto ELSE ContentTypeGRPCWebProto

\* A status line that passes the captured code on to the transport.
TransportStatusCaptured(captured) == captured

\* w.w.WriteHeader(http.StatusOK): the status line given to the transport,
\* whatever code was captured.
TransportStatus(captured) == StatusOK

\* A guard that lets writeHeaders run again on every call.
AlreadyWrittenNever(s) == FALSE

\* The guard of writeHeaders: if w.headersWritten { return }.
AlreadyWritten(s) == s.headersWritten

\* w.writeHeaders().
WriteHeadersOp(s) ==
    IF AlreadyWritten(s) THEN s
    ELSE LET named == IF "Trailer" \in DOMAIN s.headers
                      THEN AnnouncedKeys(s.headers["Trailer"]) ELSE <<>>
             ht == Promote(named, [headers |-> s.headers, trailers |-> s.trailers])
             rest == Without(ht.headers, "Trailer")
             copied == [k \in DOMAIN s.wHeader \cup Forwarded(rest) |->
                           IF k \in Forwarded(rest) THEN rest[k] ELSE s.wHeader[k]]
             typed == With(copied, "Content-Type", << FinalContentType(s.isTextResponse) >>)
             exposed == With(typed, "Access-Control-Expose-Headers",
                             (IF "Access-Control-Expose-Headers" \in DOMAIN typed
                              THEN typed["Access-Control-Expose-Headers"] ELSE <<>>)
                             \o << "grpc-status, grpc-message" >>)
         IN [s EXCEPT !.headersWritten = TRUE,
                      !.headers = rest,
                      !.trailers = ht.trailers,
                      !.wHeader = exposed,
                      !.awaited = { named[i] : i \in 1..Len(named) } \ DOMAIN s.headers,
                      !.wStatus = IF @ = 0 THEN TransportStatus(s.capturedStatusCode) ELSE @]

\* The header of a gRPC-Web data frame: flag 0x80 in place of grpcDataFrame.
GrpcWebFrameHeaderAsTrailer(length) == << grpcTrailerFrame >> \o PutUint32(length)

\* The header of a gRPC-Web data frame.
GrpcWebFrameHeader(length) == << grpcDataFrame >> \o PutUint32(length)

\* A test that never finds a frame complete: Write only accumulates.
FrameIncompleteAlways(bufLen, length) == TRUE

\* uint32(w.frameBuffer.Len()) < 5+length, in uint32 arithmetic.
FrameIncomplete(bufLen, length) ==
    Lt32(ToUint32(bufLen), Add32(ToUint32(5), length))

\* The loop of Write: forward every frame the test takes to be complete.
RECURSIVE DrainFrames(_)
DrainFrames(s) ==
    IF Len(s.frameBuffer) < 5 THEN [st |-> s, err |-> ErrNil]
    ELSE LET length == Uint32(SubSeq(s.frameBuffer, 2, 5))
         IN IF FrameIncomplete(Len(s.frameBuffer), length) THEN [st |-> s, err |-> ErrNil]
            ELSE LET h == BodyWrite([s EXCEPT !.frameBuffer = Drop(@, 5)],
                                    GrpcWebFrameHeader(length))
                     n == CopyCount(length, Len(h.st.frameBuffer))
                     payload == Take(h.st.frameBuffer, n)
                     taken == [h.st EXCEPT !.frameBuffer = Drop(@, n)]
                     c == IF n > 0 THEN BodyWrite(taken, payload)
                          ELSE [st |-> taken, err |-> ErrNil]
                 IN IF h.err # ErrNil THEN h
                    ELSE IF c.err # ErrNil THEN c
                    ELSE IF Lt32(ToUint32(n), length) THEN [st |-> c.st, err |-> ErrEOF]
                    ELSE DrainFrames(c.st)

\* w.Write(p).
WriteOp(s, p) == DrainFrames([WriteHeadersOp(s) EXCEPT !.frameBuffer = @ \o p])

\* A Flush that also closes the base64 encoder, padding the group at hand.
FlushOpPadding(s) ==
    LET s1 == WriteHeadersOp(s)
        c == IF s1.isTextResponse THEN EncoderClose(s1).st ELSE s1
    IN IF c.hasFlusher THEN [c EXCEPT !.wFlushes = @ + 1] ELSE c

\* w.Flush().
FlushOp(s) ==
    LET s1 == WriteHeadersOp(s)
    IN IF s1.hasFlusher THEN [s1 EXCEPT !.wFlushes = @ + 1] ELSE s1

\* A WriteHeader that passes the status line straight on to the transport.
WriteHeaderOpForwarding(s, statusCode) ==
    [s EXCEPT !.capturedStatusCode = statusCode, !.wStatus = statusCode]

\* w.WriteHeader(statusCode).
WriteHeaderOp(s, statusCode) ==
    IF s.headersWritten THEN s ELSE [s EXCEPT !.capturedStatusCode = statusCode]

\* The status Finish puts in the trailers when they carry none.
SynthStatus(t, code) ==
    IF Get(t, "Grpc-Status") = ""
    THEN With(t, "Grpc-Status", << Itoa(httpStatusToGrpcCode(code)) >>)
    ELSE t

\* The message Finish puts in the trailers when they carry none.
SynthMessage(t, code) ==
    IF Get(t, "Grpc-Message") = "" /\ code # StatusOK
    THEN With(t, "Grpc-Message", << StatusText(code) >>)
    ELSE t

\* w.Finish().
FinishOp(s) ==
    LET s1 == WriteHeadersOp(s)
        t == SynthMessage(SynthStatus(s1.trailers, s1.capturedStatusCode),
                          s1.capturedStatusCode)
        trailerBuf == HeaderWrite(t)
        h == BodyWrite([s1 EXCEPT !.trailers = t],
                       << grpcTrailerFrame >> \o PutUint32(ToUint32(Len(trailerBuf))))
        b == BodyWrite(h.st, trailerBuf)
        c == IF s.isTextResponse THEN EncoderClose(b.st) ELSE [st |-> b.st, err |-> ErrNil]
    IN IF h.err # ErrNil
       THEN [st |-> h.st, err |-> "failed to write trailer frame header"]
       ELSE IF b.err # ErrNil
       THEN [st |-> b.st, err |-> "failed to write trailer payload"]
       ELSE IF c.err # ErrNil
       THEN [st |-> [c.st EXCEPT !.trailerBlock = trailerBuf],
             err |-> "failed closing body writer"]
       ELSE [st |-> FlushOp([c.st EXCEPT !.trailerBlock = trailerBuf]), err |-> ErrNil]

\* --------------------------------------------------------------- the actions
\* The writer and its transport as one record.
St ==
    [isTextResponse |-> isTextResponse, hasFlusher |-> hasFlusher,
     headers |-> headers, trailers |-> trailers,
     capturedStatusCode |-> capturedStatusCode, headersWritten |-> headersWritten,
     frameBuffer |-> frameBuffer, encBuf |-> encBuf, encErr |-> encErr,
     wHeader |-> wHeader, wStatus |-> wStatus, wBody |-> wBody,
     wFlushes |-> wFlushes, wBroken |-> wBroken,
     sinkBytes |-> sinkBytes, sinkRejects |-> sinkRejects,
     trailerBlock |-> trailerBlock, awaited |-> awaited]

Apply(s) ==
    /\ isTextResponse' = s.isTextResponse
    /\ hasFlusher' = s.hasFlusher
    /\ headers' = s.headers
    /\ trailers' = s.trailers
    /\ capturedStatusCode' = s.capturedStatusCode
    /\ headersWritten' = s.headersWritten
    /\ frameBuffer' = s.frameBuffer
    /\ encBuf' = s.encBuf
    /\ encErr' = s.encErr
    /\ wHeader' = s.wHeader
    /\ wStatus' = s.wStatus
    /\ wBody' = s.wBody
    /\ wFlushes' = s.wFlushes
    /\ wBroken' = s.wBroken
    /\ sinkBytes' = s.sinkBytes
    /\ sinkRejects' = s.sinkRejects
    /\ trailerBlock' = s.trailerBlock
    /\ awaited' = s.awaited

\* NewStreamingResponseWriter(w, isText) on a fresh transport.
NewStreamingResponseWriter(isText, flusher) ==
    [isTextResponse |-> isText, hasFlusher |-> flusher,
     headers |-> NoHeader, trailers |-> NoHeader,
     capturedStatusCode |-> StatusOK, headersWritten |-> FALSE,
     frameBuffer |-> <<>>, encBuf |-> <<>>, encErr |-> FALSE,
     wHeader |-> NoHeader, wStatus |-> 0, wBody |-> <<>>,
     wFlushes |-> 0, wBroken |-> FALSE,
     sinkBytes |-> <<>>, sinkRejects |-> 0, trailerBlock |-> <<>>, awaited |-> {}]

\* The backend writes the next n bytes of its response.
WriteCall(n) ==
    /\ ~finished
    /\ n <= Len(toSend)
    /\ LET r == WriteOp(St, Take(toSend, n))
       IN Apply(r.st) /\ ret' = [op |-> "Write", err |-> r.err]
    /\ toSend' = Drop(toSend, n)
    /\ sent' = sent \o Take(toSend, n)
    /\ UNCHANGED << finished, headerCalls, readerVars, negotiationVars >>

FlushCall ==
    /\ ~finished
    /\ wFlushes < MaxFlushes
    /\ Apply(FlushOp(St))
    /\ ret' = [op |-> "Flush", err |-> ErrNil]
    /\ UNCHANGED << toSend, sent, finished, headerCalls, readerVars, negotiationVars >>

FinishCall ==
    /\ ~finished
    /\ LET r == FinishOp(St)
       IN Apply(r.st) /\ ret' = [op |-> "Finish", err |-> r.err]
    /\ finished' = TRUE
    /\ UNCHANGED << toSend, sent, headerCalls, readerVars, negotiationVars >>

WriteHeaderCall(statusCode) ==
    /\ ~finished
    /\ Apply(WriteHeaderOp(St, statusCode))
    /\ ret' = [op |-> "WriteHeader", err |-> ErrNil]
    /\ UNCHANGED << toSend, sent, finished, headerCalls, readerVars, negotiationVars >>

\* w.Header().Set(k, v), Add(k, v) or Del(k): a mutation of the map Header()
\* returns, which is w.headers itself.
HeaderCall(h) ==
    /\ ~finished
    /\ headerCalls < MaxHeaderCalls
    /\ headers' = h
    /\ headerCalls' = headerCalls + 1
    /\ ret' = [op |-> "Header", err |-> ErrNil]
    /\ UNCHANGED << isTextResponse, hasFlusher, trailers, capturedStatusCode,
                    headersWritten, frameBuffer, encBuf, encErr, wHeader, wStatus,
                    wBody, wFlushes, wBroken, sinkBytes, sinkRejects, trailerBlock,
                    awaited, toSend, sent, finished, log, readerVars, negotiationVars >>

HeaderSet(k, v) == HeaderCall(With(headers, k, << v >>))

HeaderAdd(k, v) ==
    HeaderCall(With(headers, k, (IF k \in DOMAIN headers THEN headers[k] ELSE <<>>) \o << v >>))

HeaderDel(k) == k \in DOMAIN headers /\ HeaderCall(Without(headers, k))

Write(n) == WriteCall(n) /\ UNCHANGED log

Flush == FlushCall /\ UNCHANGED log

Finish == FinishCall /\ UNCHANGED log

WriteHeader(statusCode) == WriteHeaderCall(statusCode) /\ UNCHANGED log

\* The same calls, recorded in the log.
LoggedWrite(n) ==
    /\ Len(log) < MaxCalls
    /\ WriteCall(n)
    /\ log' = Append(log, [op |-> "Write", p |-> Take(toSend, n), code |-> 0])

LoggedFlush ==
    /\ Len(log) < MaxCalls
    /\ FlushCall
    /\ log' = Append(log, [op |-> "Flush", p |-> <<>>, code |-> 0])

LoggedWriteHeader(statusCode) ==
    /\ Len(log) < MaxCalls
    /\ WriteHeaderCall(statusCode)
    /\ log' = Append(log, [op |-> "WriteHeader", p |-> <<>>, code |-> statusCode])

LoggedFinish ==
    /\ FinishCall
    /\ log' = Append(log, [op |-> "Finish", p |-> <<>>, code |-> 0])

\* The writer s after the logged call c.
Step(c, s) ==
    CASE c.op = "Write" -> WriteOp(s, c.p).st
      [] c.op = "Flush" -> FlushOp(s)
      [] c.op = "WriteHeader" -> WriteHeaderOp(s, c.code)
      [] c.op = "Finish" -> FinishOp(s).st

\* The writer s after the logged calls l, in order.
RECURSIVE Replay(_, _)
Replay(l, s) == IF l = <<>> THEN s ELSE Replay(Tail(l), Step(Head(l), s))

\* The client goes away: from now on the transport's Write fails.
Disconnect ==
    /\ ~wBroken
    /\ ~finished
    /\ wBroken' = TRUE
    /\ UNCHANGED << isTextResponse, hasFlusher, headers, trailers, capturedStatusCode,
                    headersWritten, frameBuffer, encBuf, encErr, wHeader, wStatus,
                    wBody, wFlushes, sinkBytes, sinkRejects, trailerBlock, awaited,
                    callerVars, readerVars, negotiationVars >>

\* ===================================================== negotiation helpers
ContentTypeGRPCWeb == "application/grpc-web"
ContentTypeGRPCWebText == "application/grpc-web-text"

\* strings.HasPrefix, strings.HasSuffix and strings.Contains on the bytes of
\* two strings.
HasPrefix(str, prefix) == IsPrefix(prefix, str)

HasSuffix(str, suffix) ==
    Len(str) >= Len(suffix) /\ SubSeq(str, Len(str) - Len(suffix) + 1, Len(str)) = suffix

Contains(str, substr) ==
    \E i \in 0..(Len(str) - Len(substr)) : SubSeq(str, i + 1, i + Len(substr)) = substr

\* IsGRPCWebRequest(r).
IsGRPCWebRequest(r) ==
    r.method = "POST" /\ HasPrefix(Ascii(r.contentType), Ascii(ContentTypeGRPCWeb))

\* IsTextRequest(r).
IsTextRequest(r) ==
    \/ HasSuffix(Ascii(r.contentType), Ascii("-text"))
    \/ Contains(Ascii(r.accept), Ascii(ContentTypeGRPCWebText))

\* The helpers are applied to the request at hand.
Negotiate ==
    /\ ~negotiation.done
    /\ negotiation' = [done |-> TRUE,
                       isGRPCWeb |-> IsGRPCWebRequest(request),
                       isText |-> IsTextRequest(request)]
    /\ UNCHANGED << request, readerVars, writerVars, callerVars >>

\* The four gRPC-Web content types, the native one, another, and none.
RequestContentTypes ==
    { "application/grpc-web", "application/grpc-web-text", "application/grpc-web+proto",
      "application/grpc-web-text+proto", "application/grpc", "application/json", "" }

\* Accept header values; "" when the request has no Accept header.
RequestAccepts ==
    { "", "*/*", "application/grpc-web-text", "application/grpc-web-text+proto",
      "application/grpc-web+proto" }

RequestMethods == { "POST", "GET", "OPTIONS" }

\* No request at hand: the helpers take no part in the exchange.
NegotiationIdle ==
    /\ request = [method |-> "", contentType |-> "", accept |-> ""]
    /\ negotiation = [done |-> FALSE, isGRPCWeb |-> FALSE, isText |-> FALSE]

\* The reader at rest, for the specifications of the writer.
ReaderIdle ==
    /\ source = <<>>
    /\ srcInit = <<>>
    /\ buffer = <<>>
    /\ delivered = <<>>
    /\ lastRead = [n |-> 0, err |-> ErrNil]
    /\ truncated = FALSE
    /\ ended = FALSE

\* A writer just constructed, with toSend still to choose.
WriterInit(texts, flushers) ==
    /\ \E isText \in texts, flusher \in flushers :
          LET s == NewStreamingResponseWriter(isText, flusher)
          IN /\ isTextResponse = s.isTextResponse
             /\ hasFlusher = s.hasFlusher
             /\ headers = s.headers
             /\ trailers = s.trailers
             /\ capturedStatusCode = s.capturedStatusCode
             /\ headersWritten = s.headersWritten
             /\ frameBuffer = s.frameBuffer
             /\ encBuf = s.encBuf
             /\ encErr = s.encErr
             /\ wHeader = s.wHeader
             /\ wStatus = s.wStatus
             /\ wBody = s.wBody
             /\ wFlushes = s.wFlushes
             /\ wBroken = s.wBroken
             /\ sinkBytes = s.sinkBytes
             /\ sinkRejects = s.sinkRejects
             /\ trailerBlock = s.trailerBlock
             /\ awaited = s.awaited
    /\ sent = <<>>
    /\ ret = [op |-> "New", err |-> ErrNil]
    /\ finished = FALSE
    /\ headerCalls = 0
    /\ log = <<>>

\* Native response streams: frames of 0, 1 and 2 payload bytes, a frame with
\* the compression flag set, the start of a frame declaring 2^16 payload
\* bytes, and the start of one declaring 2^32-1.
NativeItems ==
    { <<0, 0, 0, 0, 0>>,
      <<0, 0, 0, 0, 1, 65>>,
      <<0, 0, 0, 0, 2, 66, 67>>,
      <<1, 0, 0, 0, 1, 68>>,
      <<0, 0, 1, 0, 0, 70>>,
      <<0, 255, 255, 255, 255, 69>> }

\* Request bodies: web frames, a trailer frame, and truncated frames.
SrcItems ==
    { <<0, 0, 0, 0, 0>>,
      <<0, 0, 0, 0, 1, 65>>,
      <<0, 0, 0, 0, 2, 66, 67>>,
      <<128, 0, 0, 0, 0>>,
      <<0, 0, 0>>,
      <<0, 0, 0, 0, 2, 66>>,
      <<0, 0, 0, 0, 1>> }

RECURSIVE Streams(_, _)
Streams(items, k) ==
    IF k = 0 THEN { <<>> }
    ELSE Streams(items, k - 1) \cup
         { s \o i : s \in Streams(items, k - 1), i \in items }

ReaderInit ==
    /\ source \in Streams(SrcItems, MaxSrcItems)
    /\ srcInit = source
    /\ buffer = <<>>
    /\ delivered = <<>>
    /\ lastRead = [n |-> 0, err |-> ErrNil]
    /\ truncated = FALSE
    /\ ended = FALSE
    /\ WriterInit({FALSE}, {FALSE})
    /\ toSend = <<>>
    /\ NegotiationIdle

ReaderNext == \E n \in 0..MaxRead : Read(n)

SpecReader == ReaderInit /\ [][ReaderNext]_vars

\* The response writer fed native streams in arbitrary chunks, with flushes,
\* a finish, and a client that may go away.
Init ==
    /\ ReaderIdle
    /\ WriterInit(BOOLEAN, BOOLEAN)
    /\ toSend \in Streams(NativeItems, MaxFrames)
    /\ NegotiationIdle

Next ==
    \/ \E n \in 0..Len(toSend) : Write(n)
    \/ Flush
    \/ Finish
    \/ Disconnect

Spec == Init /\ [][Next]_vars

\* The values the backend gives each response field.
HeaderValues(k) ==
    CASE k = "Trailer" -> {"Grpc-Status", "X-Foo", "grpc-message, x-foo"}
      [] k = "X-Foo" -> {"bar"}
      [] k = "Grpc-Status" -> {"0", "5"}
      [] k = "Grpc-Message" -> {"ok"}
      [] k = "Content-Type" -> {"application/grpc"}

HeaderKeys == {"Trailer", "X-Foo", "Grpc-Status", "Grpc-Message", "Content-Type"}

\* The status codes of the upstream response: every code of the mapping
\* table, one registered code outside it (500) and one unregistered (499).
StatusCodes == {200, 400, 401, 403, 404, 429, 499, 500, 502, 503, 504}

\* The response writer given headers, trailers and a status by the backend
\* before and after one Write of a one-frame body, then finished.
MetaInit ==
    /\ ReaderIdle
    /\ WriterInit({FALSE}, {TRUE})
    /\ toSend = <<0, 0, 0, 0, 1, 65>>
    /\ NegotiationIdle

MetaNext ==
    \/ \E k \in HeaderKeys : \E v \in HeaderValues(k) : HeaderSet(k, v)
    \/ \E v \in HeaderValues("Trailer") : HeaderAdd("Trailer", v)
    \/ HeaderDel("X-Foo")
    \/ \E c \in StatusCodes : WriteHeader(c)
    \/ (toSend # <<>> /\ Write(Len(toSend)))
    \/ (~headersWritten /\ Flush)
    \/ Finish

SpecMeta == MetaInit /\ [][MetaNext]_vars

\* The fields the backend sets on a response it proxies, and their values:
\* a Content-Type of the native protocol or of the web text protocol, a
\* Content-Length, a field of its own and an announcement of that field.
BackendKeys == {"Content-Type", "Content-Length", "X-Foo", "Trailer"}

BackendValues(k) ==
    CASE k = "Content-Type" -> {"application/grpc", "application/grpc-web-text+proto"}
      [] k = "Content-Length" -> {"11"}
      [] k = "X-Foo" -> {"bar"}
      [] k = "Trailer" -> {"X-Foo"}

\* The response writer, in either mode, given these fields by the backend
\* before and after finalization by a Write, a Flush or the Finish.
HeadersInit ==
    /\ ReaderIdle
    /\ WriterInit(BOOLEAN, {TRUE})
    /\ toSend = <<0, 0, 0, 0, 1, 65>>
    /\ NegotiationIdle

HeadersNext ==
    \/ \E k \in BackendKeys : \E v \in BackendValues(k) : HeaderSet(k, v)
    \/ \E k \in BackendKeys : HeaderDel(k)
    \/ (toSend # <<>> /\ Write(Len(toSend)))
    \/ Flush
    \/ Finish

SpecHeaders == HeadersInit /\ [][HeadersNext]_vars

\* The negotiation helpers applied to one incoming request.
NegotiationInit ==
    /\ ReaderIdle
    /\ WriterInit({FALSE}, {FALSE})
    /\ toSend = <<>>
    /\ request \in [method : RequestMethods, contentType : RequestContentTypes,
                     accept : RequestAccepts]
    /\ negotiation = [done |-> FALSE, isGRPCWeb |-> FALSE, isText |-> FALSE]

NegotiationNext == Negotiate

SpecNegotiation == NegotiationInit /\ [][NegotiationNext]_vars

\* The response writer in text mode: logged writes of a native stream in
\* arbitrary chunks, flushes and status codes, then one Finish.
TextStreams ==
    { <<0, 0, 0, 0, 0>>,
      <<0, 0, 0, 0, 1, 65>>,
      <<0, 0, 0, 0, 1, 65, 1, 0, 0, 0, 2, 66, 67>>,
      <<0, 255, 255, 255, 255, 69>> }

TextInit ==
    /\ ReaderIdle
    /\ WriterInit({TRUE}, {TRUE})
    /\ toSend \in TextStreams
    /\ NegotiationIdle

TextNext ==
    \/ \E n \in (1..Min(MaxChunk, Len(toSend))) \cup {Len(toSend)} : LoggedWrite(n)
    \/ LoggedFlush
    \/ LoggedWriteHeader(404)
    \/ LoggedFinish

SpecText == TextInit /\ [][TextNext]_vars

\* ------------------------------------------------- reference frame algebra
\* A byte string that is exactly a sequence of complete frames whose flag is
\* in flags and whose lengths are below 2^16.
RECURSIVE IsFrameSeq(_, _)
IsFrameSeq(b, flags) ==
    \/ b = <<>>
    \/ /\ Len(b) >= 5
       /\ b[1] \in flags
       /\ b[2] = 0 /\ b[3] = 0
       /\ Len(b) >= 5 + b[4] * 256 + b[5]
       /\ IsFrameSeq(SubSeq(b, 6 + b[4] * 256 + b[5], Len(b)), flags)

\* The payloads of a frame sequence, in order.
RECURSIVE PayloadsOf(_)
PayloadsOf(b) ==
    IF b = <<>> THEN <<>>
    ELSE LET n == b[4] * 256 + b[5]
         IN << SubSeq(b, 6, 5 + n) >> \o PayloadsOf(SubSeq(b, 6 + n, Len(b)))

\* One frame: flag, 4-byte big-endian length, payload.
FrameOf(flag, payload) ==
    << flag, 0, 0, Len(payload) \div 256, Len(payload) % 256 >> \o payload

\* What is left of b after its leading complete frames: the bytes of the
\* frame that is not complete yet.
RECURSIVE Incomplete(_)
Incomplete(b) ==
    IF Len(b) < 5 THEN b
    ELSE IF b[2] > 0 \/ b[3] > 0 \/ 5 + b[4] * 256 + b[5] > Len(b) THEN b
    ELSE Incomplete(SubSeq(b, 6 + b[4] * 256 + b[5], Len(b)))

\* The frames with the given flag carrying the given payloads.
RECURSIVE FramesOf(_, _)
FramesOf(flag, payloads) ==
    IF payloads = <<>> THEN <<>>
    ELSE FrameOf(flag, Head(payloads)) \o FramesOf(flag, Tail(payloads))

\* ============================================================ writer claims

\* C1: when the bytes written so far are a sequence of complete native
\* frames (compressed or not) and the sink has not failed, the sink has
\* received, in order, one web DATA frame (flag 0x00) per native frame with
\* the same length and the same payload, and nothing else; Write reported no
\* error and kept nothing back.
WriteForwardsFrames ==
    (IsFrameSeq(sent, {0, 1}) /\ ~wBroken /\ ~finished) =>
        /\ sinkBytes = FramesOf(grpcDataFrame, PayloadsOf(sent))
        /\ frameBuffer = <<>>
        /\ ret.err = ErrNil

\* A compressed one-byte frame followed by a second frame, both forwarded.
WriteForwardsFramesWitness ==
    /\ IsFrameSeq(sent, {0, 1})
    /\ Len(PayloadsOf(sent)) = 2
    /\ sent[1] = 1
    /\ toSend = <<>>
    /\ ret.op = "Write"
    /\ ~wBroken /\ ~finished
    /\ sinkBytes = FramesOf(grpcDataFrame, PayloadsOf(sent))

\* The writer after one Write of everything written so far.
WholeWrite == WriteOp(NewStreamingResponseWriter(isTextResponse, hasFlusher), sent).st

\* C2: however the bytes were split into writes, the sink has received what a
\* single Write of all of them delivers, and the bytes that do not complete a
\* frame are all still in the accumulation buffer.
PartialWritesReassemble ==
    (~wBroken /\ ~finished) =>
        /\ sinkBytes = WholeWrite.sinkBytes
        /\ frameBuffer = Incomplete(sent)

\* ------------------------------------------------ reference trailer blocks
\* The lines of a header block, each without its closing CR LF.
RECURSIVE LinesFrom(_, _)
LinesFrom(b, line) ==
    IF b = <<>> THEN {}
    ELSE IF Len(b) >= 2 /\ b[1] = 13 /\ b[2] = 10
    THEN {line} \cup LinesFrom(SubSeq(b, 3, Len(b)), <<>>)
    ELSE LinesFrom(Tail(b), Append(line, b[1]))

LinesOf(block) == LinesFrom(block, <<>>)

\* The values the block gives field k: what follows "k: " on its lines.
FieldValues(block, k) ==
    { Drop(l, Len(Ascii(k)) + 2) :
        l \in { x \in LinesOf(block) : IsPrefix(Ascii(k) \o <<58, 32>>, x) } }

HasField(block, k) == FieldValues(block, k) # {}

HasLine(block, k, v) == (Ascii(k) \o <<58, 32>> \o Ascii(v)) \in LinesOf(block)

\* The field names a Trailer value names, whatever their case and spacing.
NamesIn(trailer) ==
    CASE trailer = "Grpc-Status" -> {"Grpc-Status"}
      [] trailer = "X-Foo" -> {"X-Foo"}
      [] trailer = "grpc-message, x-foo" -> {"Grpc-Message", "X-Foo"}

\* The field names announced by the Trailer values of header map h.
Named(h) ==
    IF "Trailer" \in DOMAIN h
    THEN UNION { NamesIn(h["Trailer"][i]) : i \in 1..Len(h["Trailer"]) }
    ELSE {}

\* Finish has returned without error: the trailer frame is out.
TrailerSent == finished /\ ret.err = ErrNil

\* ========================================================== metadata claims

\* C4: a field announced in Trailer whose value the backend sets on the
\* header map only after header finalization, and before Finish, is in the
\* TRAILER block Finish emits, with the backend's value.
TrailingMetadataReachesClient ==
    TrailerSent =>
        \A k \in awaited \cap DOMAIN headers :
            \A i \in 1..Len(headers[k]) : HasLine(trailerBlock, k, headers[k][i])

\* The trailer set carries no status when Finish comes to read it: none was
\* promoted, and none can be promoted by a finalization still to run.
NoExplicitStatus ==
    /\ "Grpc-Status" \notin DOMAIN trailers
    /\ headersWritten \/ "Grpc-Status" \notin DOMAIN headers \/ "Trailer" \notin DOMAIN headers

\* C5: a Finish that finds no explicit status in the trailer set puts status
\* 0 in the block when the captured status code is 200, and for every other
\* captured code a non-zero status together with a non-empty message.
TrailerSynthesis ==
    [][(~finished /\ finished' /\ ret'.err = ErrNil /\ NoExplicitStatus) =>
          IF capturedStatusCode = 200
          THEN FieldValues(trailerBlock', "Grpc-Status") = { Ascii("0") }
          ELSE /\ HasField(trailerBlock', "Grpc-Status")
               /\ Ascii("0") \notin FieldValues(trailerBlock', "Grpc-Status")
               /\ HasField(trailerBlock', "Grpc-Message")
               /\ <<>> \notin FieldValues(trailerBlock', "Grpc-Message")]_vars

\* C6: every TRAILER block Finish emits has a status-code field, and a
\* message field too whenever that status is not 0.
MandatoryTrailerFields ==
    TrailerSent =>
        /\ HasField(trailerBlock, "Grpc-Status")
        /\ FieldValues(trailerBlock, "Grpc-Status") # { Ascii("0") } =>
               HasField(trailerBlock, "Grpc-Message")

\* C7: header finalization moves every field that a Trailer value names and
\* that is among the buffered headers to the trailer set with its values:
\* afterwards neither the buffered nor the transport headers hold that field
\* or the Trailer field, and the block Finish emits has a line for every
\* value of every trailer field.
TrailerPromotion ==
    [][/\ (~headersWritten /\ headersWritten') =>
            /\ "Trailer" \notin DOMAIN wHeader' \cup DOMAIN headers'
            /\ \A k \in Named(headers) \cap DOMAIN headers :
                  /\ k \notin DOMAIN wHeader' \cup DOMAIN headers'
                  /\ k \in DOMAIN trailers'
                  /\ trailers'[k] = headers[k]
       /\ (finished' /\ ret'.err = ErrNil) =>
            \A k \in DOMAIN trailers' :
                \A i \in 1..Len(trailers'[k]) : HasLine(trailerBlock', k, trailers'[k][i])
      ]_vars

\* Trailer "grpc-message, x-foo" with both fields buffered: both have left
\* the transport headers and are in the emitted block.
TrailerPromotionWitness ==
    /\ TrailerSent
    /\ HasLine(trailerBlock, "X-Foo", "bar")
    /\ HasLine(trailerBlock, "Grpc-Message", "ok")
    /\ DOMAIN wHeader = {"Content-Type", "Access-Control-Expose-Headers"}
    /\ sent # <<>>
    /\ DOMAIN headers = {}

\* ---------------------------------------------------------- reference base64
\* The 6-bit value of a character of the standard alphabet, -1 for any other.
B64Val(c) ==
    IF c >= 65 /\ c <= 90 THEN c - 65
    ELSE IF c >= 97 /\ c <= 122 THEN c - 71
    ELSE IF c >= 48 /\ c <= 57 THEN c + 4
    ELSE IF c = 43 THEN 62
    ELSE IF c = 47 THEN 63 ELSE -1

\* Strict standard decoding: groups of 4 characters of the alphabet, '='
\* only as the last one or two characters of the last group.
RECURSIVE B64Decode(_)
B64Decode(t) ==
    IF t = <<>> THEN [ok |-> TRUE, bytes |-> <<>>]
    ELSE IF Len(t) < 4 THEN [ok |-> FALSE, bytes |-> <<>>]
    ELSE LET a == B64Val(t[1])
             b == B64Val(t[2])
             c == B64Val(t[3])
             d == B64Val(t[4])
             rest == SubSeq(t, 5, Len(t))
         IN IF a >= 0 /\ b >= 0 /\ c >= 0 /\ d >= 0
            THEN LET r == B64Decode(rest)
                 IN [ok |-> r.ok,
                     bytes |-> << a * 4 + b \div 16, (b % 16) * 16 + c \div 4,
                                  (c % 4) * 64 + d >> \o r.bytes]
            ELSE IF rest = <<>> /\ a >= 0 /\ b >= 0 /\ c >= 0 /\ t[4] = 61
            THEN [ok |-> TRUE, bytes |-> << a * 4 + b \div 16, (b % 16) * 16 + c \div 4 >>]
            ELSE IF rest = <<>> /\ a >= 0 /\ b >= 0 /\ t[3] = 61 /\ t[4] = 61
            THEN [ok |-> TRUE, bytes |-> << a * 4 + b \div 16 >>]
            ELSE [ok |-> FALSE, bytes |-> <<>>]

\* The binary-mode writer after the calls of the log.
BinaryRun == Replay(log, NewStreamingResponseWriter(FALSE, hasFlusher))

\* ================================================================ text mode

\* C8: after any writes, flushes and status calls followed by one Finish, the
\* body the transport received in text mode is valid standard base64, with
\* padding at the very end only, and decodes to exactly the body the same
\* calls deliver in binary mode.
TextModeInvariant ==
    (isTextResponse /\ TrailerSent) =>
        /\ B64Decode(wBody).ok
        /\ B64Decode(wBody).bytes = BinaryRun.wBody
        /\ BinaryRun.wBody = sinkBytes

\* Chunked writes with a flush in between, then Finish: the text body ends
\* in padding and decodes to the binary body.
TextModeInvariantWitness ==
    /\ isTextResponse /\ TrailerSent
    /\ Len(log) = 4
    /\ log[1].op = "Write" /\ Len(log[1].p) = 1
    /\ log[2].op = "Flush"
    /\ log[3].op = "Write"
    /\ wBody[Len(wBody)] = 61
    /\ B64Decode(wBody).bytes = BinaryRun.wBody

\* ============================================================ reader claims

\* C3: for a source holding a well-formed sequence of web DATA frames, Read
\* never fails, the bytes returned so far are a prefix of the same frames in
\* native framing (flag 0, same length, same payload), and at end-of-stream
\* they are exactly those frames, whatever the sizes of the read buffers.
ReadTranslatesFrames ==
    IsFrameSeq(srcInit, {grpcDataFrame}) =>
        /\ lastRead.err \in {ErrNil, ErrEOF}
        /\ IsPrefix(delivered, FramesOf(0, PayloadsOf(srcInit)))
        /\ lastRead.err = ErrEOF => delivered = FramesOf(0, PayloadsOf(srcInit))

\* Two frames, the second with a payload, translated up to end-of-stream.
ReadTranslatesFramesWitness ==
    /\ IsFrameSeq(srcInit, {grpcDataFrame})
    /\ Len(PayloadsOf(srcInit)) = 2
    /\ Len(srcInit) > 10
    /\ lastRead.err = ErrEOF
    /\ delivered = FramesOf(0, PayloadsOf(srcInit))

\* The source ends inside a frame header (1..4 bytes left).
HeaderCut == buffer = <<>> /\ Len(source) > 0 /\ Len(source) < 5

\* The source ends before the payload a DATA header declares is complete.
PayloadCut ==
    /\ buffer = <<>>
    /\ Len(source) >= 5
    /\ source[1] = grpcDataFrame
    /\ \/ source[2] > 0
       \/ source[3] > 0
       \/ source[4] * 256 + source[5] > Len(source) - 5

\* C9: a Read that meets a source ending inside a frame header or before the
\* declared payload is complete returns zero bytes and an error that is not
\* the end-of-stream signal io.EOF.
TruncationIsHardError ==
    [][(HeaderCut \/ PayloadCut) =>
          (lastRead'.n = 0 /\ lastRead'.err \notin {ErrNil, ErrEOF})]_vars

\* A Read has failed on a payload of which only a part arrived.
TruncationIsHardErrorWitness ==
    /\ lastRead = [n |-> 0, err |-> ErrCopyFrame]
    /\ Len(buffer) > 5
    /\ source = <<>>

\* C10: once a Read has failed on a short payload, no later Read returns
\* any bytes to the consumer.
TruncationIsTerminal == [][truncated => delivered' = delivered]_vars

\* C11: a Read that takes a frame header whose flag is not the DATA flag
\* returns no bytes and io.EOF, and from then on no Read returns any bytes,
\* whatever follows that header in the source.
NonDataEndsTranslation ==
    [][/\ FlagEnds(source, buffer) => lastRead' = [n |-> 0, err |-> ErrEOF]
       /\ ended => (delivered' = delivered /\ lastRead'.n = 0)]_vars

\* ======================================================= finalization claims

\* C12: whatever code WriteHeader captured, the transport is given no status
\* before header finalization and status 200 by it; the captured code shows
\* only in the trailer block, the frames before it being those of the body.
TransportStatusIsOK ==
    /\ wStatus = (IF headersWritten THEN 200 ELSE 0)
    /\ TrailerSent =>
          Take(sinkBytes, Len(sinkBytes) - Len(trailerBlock) - 5)
              = FramesOf(grpcDataFrame, PayloadsOf(sent))

\* The backend answered 503: the transport got 200 and the block status 14.
TransportStatusIsOKWitness ==
    /\ TrailerSent
    /\ capturedStatusCode = 503
    /\ wStatus = 200
    /\ sent # <<>>
    /\ HasLine(trailerBlock, "Grpc-Status", "14")
    /\ HasLine(trailerBlock, "Grpc-Message", "Service Unavailable")

\* The value writeHeaders adds to Access-Control-Expose-Headers, once per run.
ExposeRuns == IF "Access-Control-Expose-Headers" \in DOMAIN wHeader
              THEN Len(wHeader["Access-Control-Expose-Headers"]) ELSE 0

\* C13: over any writes, flushes and a finish, the first call emits the
\* headers to the transport, before any body byte reaches the sink or the
\* transport and before any flush is forwarded; they are emitted once only,
\* and headersWritten never returns to false.
HeadersOnceAndFirst ==
    [][/\ ~headersWritten =>
            /\ wStatus = 0 /\ wHeader = NoHeader
            /\ wBody = <<>> /\ sinkBytes = <<>> /\ encBuf = <<>> /\ wFlushes = 0
       /\ wBroken' = wBroken => headersWritten'
       /\ headersWritten =>
            /\ headersWritten'
            /\ wHeader' = wHeader /\ wStatus' = wStatus
            /\ wStatus = 200 /\ ExposeRuns = 1]_vars

\* A flush came first, then the body and the finish: the headers are out once.
HeadersOnceAndFirstWitness ==
    /\ TrailerSent
    /\ hasFlusher /\ wFlushes = 2
    /\ IsFrameSeq(sent, {grpcDataFrame})
    /\ Len(PayloadsOf(sent)) = 2
    /\ Len(sinkBytes) = Len(sent) + 5 + Len(trailerBlock)
    /\ wStatus = 200 /\ ExposeRuns = 1

\* =========================================================== framing claims

\* C14: a call forwards exactly the frames of which the accumulation buffer
\* holds the header and all the bytes that header declares, for every
\* declared length of 32 bits, and leaves the bytes of an incomplete frame
\* in the buffer, emitting nothing for it.
FrameCompleteness ==
    [][(~wBroken' /\ ~finished') =>
          LET b == frameBuffer \o SubSeq(sent', Len(sent) + 1, Len(sent'))
              whole == Take(b, Len(b) - Len(Incomplete(b)))
          IN /\ frameBuffer' = Incomplete(b)
             /\ sinkBytes' = sinkBytes \o FramesOf(grpcDataFrame, PayloadsOf(whole))]_vars

\* C15: after writes and flushes and a Finish that met no sink error, the
\* bytes given to the sink are complete web DATA frames (flag 0x00) followed
\* by one TRAILER frame (flag 0x80) whose length is that of the serialized
\* trailer block and whose payload is that block, with nothing after it.
WellFormedOutput ==
    TrailerSent =>
        LET n == Len(sinkBytes) - Len(trailerBlock) - 5
        IN /\ n >= 0
           /\ IsFrameSeq(Take(sinkBytes, n), {grpcDataFrame})
           /\ SubSeq(sinkBytes, n + 1, n + 5) =
                  << 128, 0, 0, Len(trailerBlock) \div 256, Len(trailerBlock) % 256 >>
           /\ SubSeq(sinkBytes, n + 6, Len(sinkBytes)) = trailerBlock

\* b holds less than one complete native frame: fewer than 5 bytes, or fewer
\* than 5 plus the length its first header declares.
BelowOneFrame(b) ==
    \/ Len(b) < 5
    \/ b[2] > 0 \/ b[3] > 0
    \/ Len(b) < 5 + b[4] * 256 + b[5]

\* C16: after every Write that returns without error the accumulation
\* buffer holds less than one complete native frame, every byte of the
\* frames that were complete having gone to the sink.
BufferBound ==
    [][(ret'.op = "Write" /\ ret'.err = ErrNil) =>
          /\ BelowOneFrame(frameBuffer')
          /\ Len(sinkBytes') + Len(frameBuffer')
                 = Len(sinkBytes) + Len(frameBuffer) + Len(sent') - Len(sent)]_vars

\* One frame forwarded, the header and half the payload of the next kept.
BufferBoundWitness ==
    /\ ret = [op |-> "Write", err |-> ErrNil]
    /\ frameBuffer = <<0, 0, 0, 0, 2, 66>>
    /\ sinkBytes = <<0, 0, 0, 0, 1, 65>>
    /\ toSend = <<67>>

\* C17: a header mutation or a WriteHeader call made before the first Write,
\* Flush or Finish changes nothing but the buffered headers and the captured
\* status: the transport still has no header, no status line, no body byte
\* and no flush, and headers are still to be finalized.
MetadataInvisible ==
    [][(~headersWritten /\ ret'.op \in {"Header", "WriteHeader"}) =>
          /\ ~headersWritten'
          /\ wHeader' = NoHeader /\ wStatus' = 0 /\ wBody' = <<>> /\ wFlushes' = 0
          /\ << trailers', frameBuffer', encBuf', sinkBytes', sent' >>
                 = << trailers, frameBuffer, encBuf, sinkBytes, sent >>]_vars

\* Three header mutations and a 404 status buffered, nothing on the transport.
MetadataInvisibleWitness ==
    /\ ~headersWritten
    /\ headerCalls = 3
    /\ {"Trailer", "X-Foo", "Content-Type"} \subseteq DOMAIN headers
    /\ capturedStatusCode = 404
    /\ ret.op = "WriteHeader"
    /\ wHeader = NoHeader /\ wStatus = 0 /\ wBody = <<>>

\* ============================================================= error claims

ContentTypeControlled ==
    [][/\ (~headersWritten /\ headersWritten') =>
            /\ wHeader'["Content-Type"] =
                   << IF isTextResponse THEN "application/grpc-web-text+proto"
                      ELSE "application/grpc-web+proto" >>
            /\ "Content-Length" \notin DOMAIN wHeader'
            /\ \A k \in DOMAIN headers \ (Named(headers) \cup
                         {"Trailer", "Content-Type", "Content-Length"}) :
                  k \in DOMAIN wHeader' /\ wHeader'[k] = headers[k]
       /\ headersWritten => wHeader' = wHeader]_vars

\* Binary mode, the text identifier, a Content-Length and X-Foo buffered:
\* the transport has the binary identifier and X-Foo, and no Content-Length.
ContentTypeControlledWitness ==
    /\ headersWritten /\ ~isTextResponse
    /\ DOMAIN headers = {"Content-Type", "Content-Length", "X-Foo"}
    /\ headers["Content-Type"] = << "application/grpc-web-text+proto" >>
    /\ wHeader["Content-Type"] = << "application/grpc-web+proto" >>
    /\ wHeader["X-Foo"] = << "bar" >>
    /\ DOMAIN wHeader = {"Content-Type", "X-Foo", "Access-Control-Expose-Headers"}
    /\ wBody # <<>>

\* ======================================================= negotiation claims

\* C20: for a request with no Accept header and one of the four gRPC-Web
\* content types, IsTextRequest is true exactly for the two base64-body
\* types, application/grpc-web-text and application/grpc-web-text+proto.
TextNegotiation ==
    (/\ negotiation.done
     /\ request.accept = ""
     /\ request.contentType \in
            { "application/grpc-web", "application/grpc-web-text",
              "application/grpc-web+proto", "application/grpc-web-text+proto" }) =>
        (negotiation.isText <=>
            request.contentType \in
                { "application/grpc-web-text", "application/grpc-web-text+proto" })

====
